---- MODULE Spec2Model ----
(***************************************************************************)
(* chrono-mcp: the chrono_parse tool (src/chrono/parser.ts, carried as     *)
(* src/unnamed/part_002 lines 285-450) behind the Cloudflare Worker's      *)
(* JSON-RPC handler (src/src/worker/handler.ts).                           *)
(*                                                                         *)
(* Representation.                                                         *)
(*  - A JavaScript string is a sequence of one-character strings, so that  *)
(*    padStart, template literals, includes() and a reader of the rendered *)
(*    text are computed character by character.                            *)
(*  - A JavaScript value is a record [t, s, n]: its typeof tag, its text   *)
(*    when it is a string, its number when it is a number or a boolean.    *)
(*  - A Date's time value (epoch milliseconds) is carried as the pair      *)
(*    [day, ms] = (floor(t / 86400000), t mod 86400000): TLC's integers    *)
(*    are 32 bits wide and an epoch-millisecond count of this century is   *)
(*    not.  The pair is a bijection of the integer, so equality of pairs   *)
(*    is equality of epoch milliseconds.  An Invalid Date (NaN) is NaNTime.*)
(*  - chrono-node, the natural-language grammar, is not part of the        *)
(*    repository: a call to chrono.parse is a choice by the environment of *)
(*    an outcome (a list of matches, or a thrown error), the same outcome  *)
(*    for the same arguments.                                              *)
(***************************************************************************)
EXTENDS Integers, Sequences, FiniteSets, TLC

VARIABLES
    conns,   \* the Worker's in-flight HTTP exchanges, by connection
    now,     \* the wall clock read by new Date()
    sample   \* one ParsedComponents and output offset, and its conversion

vars == <<conns, now, sample>>

----------------------------------------------------------------------------
(* Strings *)

Digits == <<"0", "1", "2", "3", "4", "5", "6", "7", "8", "9">>

IsDigit(c) == \E i \in 1..10 : Digits[i] = c

DigitValue(c) == (CHOOSE i \in 1..10 : Digits[i] = c) - 1

RECURSIVE NatToString(_)
NatToString(n) ==
    IF n < 10 THEN <<Digits[n + 1]>>
    ELSE NatToString(n \div 10) \o <<Digits[(n % 10) + 1]>>

\* String(n) for an integer n
NumberToString(n) == IF n < 0 THEN <<"-">> \o NatToString(-n) ELSE NatToString(n)

RECURSIVE PadStart(_, _, _)
PadStart(s, targetLength, fill) ==
    IF Len(s) >= targetLength THEN s ELSE PadStart(<<fill>> \o s, targetLength, fill)

\* the number a string of decimal digits denotes
RECURSIVE DigitsToNat(_)
DigitsToNat(s) ==
    IF s = <<>> THEN 0
    ELSE 10 * DigitsToNat(SubSeq(s, 1, Len(s) - 1)) + DigitValue(s[Len(s)])

AllDigits(s) == s # <<>> /\ \A i \in 1..Len(s) : IsDigit(s[i])

\* String.prototype.includes
Includes(s, sub) ==
    \E i \in 1..(Len(s) - Len(sub) + 1) : SubSeq(s, i, i + Len(sub) - 1) = sub

\* String.prototype.trim() === ""
TrimIsEmpty(s) == \A i \in 1..Len(s) : s[i] = " "

----------------------------------------------------------------------------
(* JavaScript values *)

Undefined == [t |-> "undefined", s |-> <<>>, n |-> 0]
JsNull == [t |-> "null", s |-> <<>>, n |-> 0]
Str(s) == [t |-> "string", s |-> s, n |-> 0]
Num(n) == [t |-> "number", s |-> <<>>, n |-> n]
Bool(b) == [t |-> "boolean", s |-> <<>>, n |-> IF b THEN 1 ELSE 0]

\* ToBoolean: undefined, null, "", 0 and false are falsy
Truthy(v) ==
    CASE v.t = "string" -> v.s # <<>>
      [] v.t = "number" -> v.n # 0
      [] v.t = "boolean" -> v.n = 1
      [] OTHER -> FALSE

\* a ?? b
Nullish(v) == v.t \in {"undefined", "null"}

----------------------------------------------------------------------------
(* Dates: the time value as [day, ms] *)

MsPerMinute == 60 * 1000
MsPerDay == 24 * 60 * MsPerMinute
MinutesPerDay == 24 * 60

NaNTime == [day |-> 0, ms |-> -1]

IsNaNTime(t) == t.ms < 0

Time(day, ms) == [day |-> day, ms |-> ms]

\* t + minutes * 60 * 1000, for a valid t
AddMinutes(t, minutes) ==
    LET total == t.ms + (minutes % MinutesPerDay) * MsPerMinute
    IN  Time(t.day + (minutes \div MinutesPerDay) + (total \div MsPerDay), total % MsPerDay)

\* the proleptic Gregorian date of a day count from 1970-01-01, by 400-year
\* eras: the year of the era, the day of that year (from 1 March), the month
CivilOfMonth(era, yoe, doy, mp, m) ==
    [year |-> yoe + era * 400 + (IF m <= 2 THEN 1 ELSE 0),
     month |-> m,
     date |-> doy - (153 * mp + 2) \div 5 + 1]

CivilOfDayOfYear(era, yoe, doy, mp) ==
    CivilOfMonth(era, yoe, doy, mp, IF mp < 10 THEN mp + 3 ELSE mp - 9)

CivilOfYearOfEra(era, doe, yoe) ==
    CivilOfDayOfYear(era, yoe,
                     doe - (365 * yoe + yoe \div 4 - yoe \div 100),
                     (5 * (doe - (365 * yoe + yoe \div 4 - yoe \div 100)) + 2) \div 153)

CivilOfEra(era, doe) ==
    CivilOfYearOfEra(era, doe,
                     (doe - doe \div 1460 + doe \div 36524 - doe \div 146096) \div 365)

CivilFromDays(days) ==
    CivilOfEra((days + 719468) \div 146097, (days + 719468) % 146097)

\* the day count from 1970-01-01 of a proleptic Gregorian date
DaysFromCivil(year, month, date) ==
    LET y == IF month <= 2 THEN year - 1 ELSE year
        era == y \div 400
        yoe == y - era * 400
        mp == IF month > 2 THEN month - 3 ELSE month + 9
        doy == (153 * mp + 2) \div 5 + date - 1
        doe == yoe * 365 + yoe \div 4 - yoe \div 100 + doy
    IN  era * 146097 + doe - 719468

getUTCFullYear(t) == CivilFromDays(t.day).year
getUTCMonth(t) == CivilFromDays(t.day).month - 1
getUTCDate(t) == CivilFromDays(t.day).date
getUTCHours(t) == t.ms \div (60 * MsPerMinute)
getUTCMinutes(t) == (t.ms \div MsPerMinute) % 60
getUTCSeconds(t) == (t.ms \div 1000) % 60
getUTCMilliseconds(t) == t.ms % 1000

\* the Date range of ECMAScript: 100,000,000 days either side of the epoch
MaxDateDays == 100 * 1000 * 1000

\* new Date(value): TimeClip makes a time value outside the range an Invalid Date
NewDate(t) ==
    IF IsNaNTime(t) THEN NaNTime
    ELSE IF t.day < -MaxDateDays THEN NaNTime
    ELSE IF t.day > MaxDateDays \/ (t.day = MaxDateDays /\ t.ms > 0) THEN NaNTime
    ELSE t

\* new Date(string), for the ISO-8601 shapes the tool's callers send:
\* YYYY-MM-DDTHH:MM:SS, an optional .mmm, then Z or a signed HH:MM; any other
\* text is an Invalid Date
DateParse(s) ==
    LET n == Len(s)
        headOk ==
            /\ n >= 20
            /\ AllDigits(SubSeq(s, 1, 4)) /\ s[5] = "-"
            /\ AllDigits(SubSeq(s, 6, 7)) /\ s[8] = "-"
            /\ AllDigits(SubSeq(s, 9, 10)) /\ s[11] = "T"
            /\ AllDigits(SubSeq(s, 12, 13)) /\ s[14] = ":"
            /\ AllDigits(SubSeq(s, 15, 16)) /\ s[17] = ":"
            /\ AllDigits(SubSeq(s, 18, 19))
        hasMs == n >= 24 /\ s[20] = "." /\ AllDigits(SubSeq(s, 21, 23))
        zone == IF hasMs THEN SubSeq(s, 24, n) ELSE SubSeq(s, 20, n)
        zoneOk ==
            \/ zone = <<"Z">>
            \/ /\ Len(zone) = 6
               /\ zone[1] \in {"+", "-"}
               /\ AllDigits(SubSeq(zone, 2, 3)) /\ zone[4] = ":"
               /\ AllDigits(SubSeq(zone, 5, 6))
               /\ DigitsToNat(SubSeq(zone, 2, 3)) <= 23
               /\ DigitsToNat(SubSeq(zone, 5, 6)) <= 59
    IN  IF ~(headOk /\ zoneOk) THEN NaNTime
        ELSE
          LET year == DigitsToNat(SubSeq(s, 1, 4))
              month == DigitsToNat(SubSeq(s, 6, 7))
              date == DigitsToNat(SubSeq(s, 9, 10))
              hour == DigitsToNat(SubSeq(s, 12, 13))
              minute == DigitsToNat(SubSeq(s, 15, 16))
              second == DigitsToNat(SubSeq(s, 18, 19))
              ms == IF hasMs THEN DigitsToNat(SubSeq(s, 21, 23)) ELSE 0
              offset ==
                  IF zone = <<"Z">> THEN 0
                  ELSE (IF zone[1] = "-" THEN -1 ELSE 1)
                       * (60 * DigitsToNat(SubSeq(zone, 2, 3)) + DigitsToNat(SubSeq(zone, 5, 6)))
              fieldsOk ==
                  /\ month \in 1..12 /\ date >= 1
                  /\ CivilFromDays(DaysFromCivil(year, month, date)).date = date
                  /\ hour <= 23 /\ minute <= 59 /\ second <= 59
          IN  IF ~fieldsOk THEN NaNTime
              ELSE NewDate(AddMinutes(
                       Time(DaysFromCivil(year, month, date),
                            ((hour * 60 + minute) * 60 + second) * 1000 + ms),
                       -offset))

----------------------------------------------------------------------------
(* chrono.ParsedComponents, as the parser reads it *)

allKeys ==
    <<"year", "month", "day", "hour", "minute", "second", "millisecond", "timezoneOffset">>

Keys == {allKeys[i] : i \in 1..Len(allKeys)}

\* a component set: each key certain (stated in the text), implied (filled in by
\* the grammar) or absent, the value of each key that is not absent, and the
\* instant the grammar resolves the set to
Component(st, val, date) == [st |-> st, val |-> val, date |-> date]

\* components.isCertain(key)
isCertain(components, key) == components.st[key] = "certain"

\* components.get(key): a number, or null for a key with no value
get(components, key) ==
    IF components.st[key] = "absent" THEN JsNull ELSE Num(components.val[key])

\* components.date()
date(components) == components.date

----------------------------------------------------------------------------
(* parser.ts *)

\* extractComponents with "else if (components.get(key))": a value of 0 is dropped
ExtractStepTruthy(components, key, acc) ==
    IF isCertain(components, key)
      THEN [acc EXCEPT !.certain = Append(@, key)]
    ELSE IF Truthy(get(components, key))
      THEN [acc EXCEPT !.implied = Append(@, key)]
    ELSE acc

\* the body of the for loop of extractComponents, one key
ExtractStep(components, key, acc) ==
    IF isCertain(components, key)
      THEN [acc EXCEPT !.certain = Append(@, key)]
    ELSE IF get(components, key) # JsNull
      THEN [acc EXCEPT !.implied = Append(@, key)]
    ELSE acc

RECURSIVE ExtractLoop(_, _)
ExtractLoop(components, i) ==
    IF i = 0 THEN [certain |-> <<>>, implied |-> <<>>]
    ELSE ExtractStep(components, allKeys[i], ExtractLoop(components, i - 1))

extractComponents(components) == ExtractLoop(components, Len(allKeys))

NaNString == <<"N", "a", "N">>

\* String(n).padStart(width, "0") of a field of a Date that may be invalid
FieldString(t, n, width) ==
    IF IsNaNTime(t) THEN NaNString ELSE PadStart(NumberToString(n), width, "0")

\* Math.abs
Abs(n) == IF n < 0 THEN -n ELSE n

\* the offset suffix with Math.round for Math.floor: 330 reads +06:30
OffsetSuffixRounded(offsetMinutes) ==
    LET sign == IF offsetMinutes >= 0 THEN <<"+">> ELSE <<"-">>
        absOffset == Abs(offsetMinutes)
        offsetHours == PadStart(NumberToString((absOffset + 30) \div 60), 2, "0")
        offsetMins == PadStart(NumberToString(absOffset % 60), 2, "0")
    IN  sign \o offsetHours \o <<":">> \o offsetMins

\* the offset suffix of toISOWithOffset: sign, hours, ":", minutes
OffsetSuffix(offsetMinutes) ==
    LET sign == IF offsetMinutes >= 0 THEN <<"+">> ELSE <<"-">>
        absOffset == Abs(offsetMinutes)
        offsetHours == PadStart(NumberToString(absOffset \div 60), 2, "0")
        offsetMins == PadStart(NumberToString(absOffset % 60), 2, "0")
    IN  sign \o offsetHours \o <<":">> \o offsetMins

\* the shift with its sign turned: utcTime - offsetMinutes * 60 * 1000
LocalTimeShiftedBack(utcTime, offsetMinutes) == NewDate(AddMinutes(utcTime, -offsetMinutes))

\* the instant the fields are read from: new Date(utcTime + offsetMinutes * 60 * 1000)
LocalTime(utcTime, offsetMinutes) == NewDate(AddMinutes(utcTime, offsetMinutes))

\* the template literal of toISOWithOffset, from localTime
IsoOfLocalTime(localTime, offsetMinutes) ==
    LET year == IF IsNaNTime(localTime) THEN NaNString
                ELSE NumberToString(getUTCFullYear(localTime))
        month == FieldString(localTime, getUTCMonth(localTime) + 1, 2)
        day == FieldString(localTime, getUTCDate(localTime), 2)
        hour == FieldString(localTime, getUTCHours(localTime), 2)
        minute == FieldString(localTime, getUTCMinutes(localTime), 2)
        second == FieldString(localTime, getUTCSeconds(localTime), 2)
        ms == FieldString(localTime, getUTCMilliseconds(localTime), 3)
    IN  year \o <<"-">> \o month \o <<"-">> \o day \o <<"T">> \o hour \o <<":">>
        \o minute \o <<":">> \o second \o <<".">> \o ms \o OffsetSuffix(offsetMinutes)

toISOWithOffset(d, offsetMinutes) ==
    IsoOfLocalTime(LocalTime(d, offsetMinutes), offsetMinutes)

\* the ParsedDateTime of convertParsedComponent, from the parts it computes
ParsedDateTime(component, outputOffset, d, parts) ==
    [iso |-> toISOWithOffset(d, outputOffset),
     unix |-> d,
     timezoneOffset |-> get(component, "timezoneOffset"),
     certain |-> parts.certain,
     implied |-> parts.implied]

convertParsedComponent(component, outputOffset) ==
    ParsedDateTime(component, outputOffset, date(component), extractComponents(component))

----------------------------------------------------------------------------
(* The conversion of one component set, on its own *)

Statuses == {"absent", "implied", "certain"}

\* the field values of "2025-03-15 14:30" read at +09:00, and all-zero values
\* (midnight of year 0 at UTC): a field whose value is 0 is still a value
ValuesTypical ==
    [k \in Keys |->
        CASE k = "year" -> 2025 [] k = "month" -> 3 [] k = "day" -> 15
          [] k = "hour" -> 14 [] k = "minute" -> 30 [] k = "timezoneOffset" -> 540
          [] OTHER -> 0]

ValuesZero == [k \in Keys |-> 0]

\* "March 15" against a reference: month and day stated, the rest filled in,
\* no timezone
StatusMarch15 ==
    [k \in Keys |->
        CASE k \in {"month", "day"} -> "certain"
          [] k = "timezoneOffset" -> "absent"
          [] OTHER -> "implied"]

At(year, month, day, ms) == Time(DaysFromCivil(year, month, day), ms)

SampleDates ==
    { Time(0, 0),
      Time(-1, MsPerDay - 1),
      At(2000, 2, 29, 12 * 60 * MsPerMinute),
      At(2024, 2, 29, 23 * 60 * MsPerMinute + 30 * MsPerMinute + 7),
      At(2025, 10, 5, 8 * 60 * MsPerMinute),
      At(2025, 12, 31, MsPerDay - 1),
      At(2100, 3, 1, 0),
      At(999, 12, 31, MsPerDay - 1),
      At(-1, 1, 1, 61001),
      Time(MaxDateDays, 0),
      Time(-MaxDateDays, 0) }

SampleOffsets == {0, 1, -1, 330, 570, 540, 840, -90, -300, -720, 5999, 6000, -6000}

NoOutput == [iso |-> <<>>, unix |-> NaNTime, timezoneOffset |-> Undefined,
             certain |-> <<>>, implied |-> <<>>]

NoSample ==
    [component |-> Component(StatusMarch15, ValuesZero, Time(0, 0)),
     offset |-> 0, converted |-> FALSE, out |-> NoOutput]

SampleInputs ==
    { [component |-> Component(st, val, At(2025, 3, 15, 5 * 60 * MsPerMinute + 30 * MsPerMinute)),
       offset |-> 540, converted |-> FALSE, out |-> NoOutput]
        : st \in [Keys -> Statuses], val \in {ValuesTypical, ValuesZero} }
    \cup
    { [component |-> Component(StatusMarch15, ValuesTypical, d),
       offset |-> o, converted |-> FALSE, out |-> NoOutput]
        : d \in SampleDates, o \in SampleOffsets }

InitConvert ==
    /\ sample \in SampleInputs
    /\ conns = <<>>
    /\ now = 0

Convert ==
    /\ ~sample.converted
    /\ sample' = [sample EXCEPT
                    !.converted = TRUE,
                    !.out = convertParsedComponent(sample.component, sample.offset)]
    /\ UNCHANGED <<conns, now>>

NextConvert == Convert

SpecConvert == InitConvert /\ [][NextConvert]_vars

----------------------------------------------------------------------------
(* Reading a rendered string back *)

\* the place of the last "+" or "-" of a string, 0 when it has none
SignPos(s) ==
    LET places == {i \in 1..Len(s) : s[i] \in {"+", "-"}}
    IN  IF places = {} THEN 0 ELSE CHOOSE i \in places : \A j \in places : j <= i

\* the instant an iso string denotes: its calendar and clock fields read as UTC,
\* minus the signed offset of its suffix; NaNTime when it has no such fields
ReadIso(s) ==
    LET n == Len(s)
        p == SignPos(s)
        body == SubSeq(s, 1, p - 1)
        b == Len(body)
        clock == SubSeq(body, b - 11, b)
        day == SubSeq(body, 1, b - 13)
        yearText == SubSeq(day, 1, Len(day) - 6)
        yearDigits == IF yearText # <<>> /\ yearText[1] = "-"
                      THEN SubSeq(yearText, 2, Len(yearText)) ELSE yearText
        shaped ==
            /\ p > 0 /\ n >= p + 5 /\ s[n - 2] = ":"
            /\ AllDigits(SubSeq(s, p + 1, n - 3)) /\ AllDigits(SubSeq(s, n - 1, n))
            /\ b >= 20 /\ body[b - 12] = "T"
            /\ AllDigits(SubSeq(clock, 1, 2)) /\ clock[3] = ":"
            /\ AllDigits(SubSeq(clock, 4, 5)) /\ clock[6] = ":"
            /\ AllDigits(SubSeq(clock, 7, 8)) /\ clock[9] = "."
            /\ AllDigits(SubSeq(clock, 10, 12))
            /\ AllDigits(yearDigits)
            /\ day[Len(day) - 5] = "-" /\ AllDigits(SubSeq(day, Len(day) - 4, Len(day) - 3))
            /\ day[Len(day) - 2] = "-" /\ AllDigits(SubSeq(day, Len(day) - 1, Len(day)))
    IN  IF ~shaped THEN NaNTime
        ELSE
          LET year == (IF yearText[1] = "-" THEN -1 ELSE 1) * DigitsToNat(yearDigits)
              month == DigitsToNat(SubSeq(day, Len(day) - 4, Len(day) - 3))
              dd == DigitsToNat(SubSeq(day, Len(day) - 1, Len(day)))
              msOfDay == ((DigitsToNat(SubSeq(clock, 1, 2)) * 60
                           + DigitsToNat(SubSeq(clock, 4, 5))) * 60
                          + DigitsToNat(SubSeq(clock, 7, 8))) * 1000
                         + DigitsToNat(SubSeq(clock, 10, 12))
              offset == (IF s[p] = "-" THEN -1 ELSE 1)
                        * (60 * DigitsToNat(SubSeq(s, p + 1, n - 3))
                           + DigitsToNat(SubSeq(s, n - 1, n)))
          IN  AddMinutes(Time(DaysFromCivil(year, month, dd), msOfDay), -offset)

\* the instant shifted by the offset is a time value a Date can hold
Representable(t, offsetMinutes) == NewDate(AddMinutes(t, offsetMinutes)) # NaNTime

----------------------------------------------------------------------------
(* Claims about the conversion, under SpecConvert *)

\* C3 as stated: for every instant and every offset, the rendered iso string
\* read back (fields as UTC, minus the suffix's offset) is the instant.
C3_RoundTripAnyInstant ==
    sample.converted => ReadIso(sample.out.iso) = date(sample.component)

\* C3, amended: whenever the instant shifted by the offset is within the Date
\* range, the rendered iso string read back is the instant, and unix is that
\* instant.
C3_RoundTrip ==
    (sample.converted /\ Representable(date(sample.component), sample.offset))
        => /\ ReadIso(sample.out.iso) = date(sample.component)
           /\ sample.out.unix = date(sample.component)

C3_Witness ==
    /\ sample.converted
    /\ sample.offset = -90
    /\ date(sample.component) = At(2024, 2, 29, 23 * 60 * MsPerMinute + 30 * MsPerMinute + 7)
    /\ ReadIso(sample.out.iso) = date(sample.component)

KeyIndex(k) == CHOOSE i \in 1..Len(allKeys) : allKeys[i] = k

InList(list, k) == \E i \in 1..Len(list) : list[i] = k

\* a list of vocabulary names in the fixed order, none twice
OrderedKeys(list) ==
    /\ \A i \in 1..Len(list) : list[i] \in Keys
    /\ \A i, j \in 1..Len(list) : i < j => KeyIndex(list[i]) < KeyIndex(list[j])

\* C4: certain and implied are disjoint lists of vocabulary names in the fixed
\* order without duplicates; a key is in certain iff the grammar marks it
\* stated, in implied iff it is not stated and has a value, in neither
\* otherwise, so that the two lists cover exactly the keys that are present.
C4_FieldPartition ==
    sample.converted =>
        LET c == sample.component
            out == sample.out
        IN  /\ OrderedKeys(out.certain) /\ OrderedKeys(out.implied)
            /\ \A k \in Keys :
                 /\ ~(InList(out.certain, k) /\ InList(out.implied, k))
                 /\ InList(out.certain, k) <=> c.st[k] = "certain"
                 /\ InList(out.implied, k) <=> c.st[k] = "implied"
                 /\ (InList(out.certain, k) \/ InList(out.implied, k)) <=> c.st[k] # "absent"

\* a set with a stated field, a filled-in field whose value is 0 and an absent field
C4_Witness ==
    /\ sample.converted
    /\ sample.component.st["month"] = "certain"
    /\ sample.component.st["hour"] = "implied" /\ sample.component.val["hour"] = 0
    /\ sample.component.st["timezoneOffset"] = "absent"
    /\ InList(sample.out.implied, "hour") /\ ~InList(sample.out.certain, "hour")

\* the text of the iso string from its last sign on, and before it
SuffixOf(iso) == SubSeq(iso, SignPos(iso), Len(iso))
BeforeSuffix(iso) == SubSeq(iso, 1, SignPos(iso) - 1)

\* ".mmm" closes the time part
ThreeMsDigits(iso) ==
    LET body == BeforeSuffix(iso)
        b == Len(body)
    IN  b >= 4 /\ body[b - 3] = "." /\ AllDigits(SubSeq(body, b - 2, b))

\* C5 as stated: for every offset the iso string ends with sign, exactly two
\* digits of hours, ":" and two digits of minutes, never "Z", and the time part
\* shows three millisecond digits.
C5_SuffixTwoDigitHours ==
    sample.converted =>
        LET iso == sample.out.iso
            n == Len(iso)
            o == sample.offset
        IN  /\ n >= 6
            /\ iso[n - 5] = (IF o >= 0 THEN "+" ELSE "-")
            /\ AllDigits(SubSeq(iso, n - 4, n - 3))
            /\ DigitsToNat(SubSeq(iso, n - 4, n - 3)) = Abs(o) \div 60
            /\ iso[n - 2] = ":"
            /\ AllDigits(SubSeq(iso, n - 1, n))
            /\ DigitsToNat(SubSeq(iso, n - 1, n)) = Abs(o) % 60
            /\ ~InList(iso, "Z")
            /\ ThreeMsDigits(iso)

\* C5, amended: the iso string ends with sign ("+" iff the offset is >= 0),
\* the hours floor(|O| / 60) zero-padded to two digits (exactly two digits when
\* |O| < 6000, as many as the number has otherwise), ":" and the two digits of
\* |O| mod 60, never "Z"; and whenever the shifted instant is within the Date
\* range the time part shows three millisecond digits.
C5_Suffix ==
    sample.converted =>
        LET iso == sample.out.iso
            suffix == SuffixOf(iso)
            m == Len(suffix)
            o == sample.offset
            hours == SubSeq(suffix, 2, m - 3)
        IN  /\ m >= 6
            /\ suffix[1] = (IF o >= 0 THEN "+" ELSE "-")
            /\ AllDigits(hours)
            /\ DigitsToNat(hours) = Abs(o) \div 60
            /\ Len(hours) = (IF Abs(o) < 6000 THEN 2 ELSE Len(NatToString(Abs(o) \div 60)))
            /\ suffix[m - 2] = ":"
            /\ AllDigits(SubSeq(suffix, m - 1, m))
            /\ DigitsToNat(SubSeq(suffix, m - 1, m)) = Abs(o) % 60
            /\ ~InList(iso, "Z")
            /\ Representable(date(sample.component), o) => ThreeMsDigits(iso)

C5_Witness ==
    /\ sample.converted
    /\ sample.offset = 330
    /\ SuffixOf(sample.out.iso) = <<"+", "0", "5", ":", "3", "0">>

----------------------------------------------------------------------------
(* parser.ts: parseDateTime *)

MsgTextRequired == <<"t", "e", "x", "t", " ", "i", "s", " ", "r", "e", "q", "u", "i", "r", "e", "d", " ", "a", "n", "d", " ", "m", "u", "s", "t", " ", "b", "e", " ", "a", " ", "s", "t", "r", "i", "n", "g">>
MsgInvalidReferencePrefix == <<"I", "n", "v", "a", "l", "i", "d", " ", "r", "e", "f", "e", "r", "e", "n", "c", "e", " ", "d", "a", "t", "e", ":", " ">>
MsgTrimNotAFunction == <<"r", "e", "f", ".", "t", "r", "i", "m", " ", "i", "s", " ", "n", "o", "t", " ", "a", " ", "f", "u", "n", "c", "t", "i", "o", "n">>
SummaryNone == <<"N", "o", " ", "d", "a", "t", "e", "/", "t", "i", "m", "e", " ", "e", "x", "p", "r", "e", "s", "s", "i", "o", "n", "s", " ", "f", "o", "u", "n", "d">>
SummaryParsed == <<"P", "a", "r", "s", "e", "d", ":", " ">>
SummaryRange == <<"P", "a", "r", "s", "e", "d", " ", "r", "a", "n", "g", "e", ":", " ">>
SummaryTo == <<" ", "t", "o", " ">>
SummaryCountPrefix == <<"P", "a", "r", "s", "e", "d", " ">>
SummaryCountSuffix == <<" ", "d", "a", "t", "e", "/", "t", "i", "m", "e", " ", "e", "x", "p", "r", "e", "s", "s", "i", "o", "n", "s">>
ModeAll == <<"a", "l", "l">>
ModeFirst == <<"f", "i", "r", "s", "t">>

\* ChronoParseInput; an absent field is Undefined
ChronoParseInput(text, reference, timezone_offset, forwardOnly, mode) ==
    [text |-> text, reference |-> reference, timezone_offset |-> timezone_offset,
     forwardOnly |-> forwardOnly, mode |-> mode]

\* ChronoParseOutput
ChronoParseOutput(results, summary) == [results |-> results, summary |-> summary]

NoParseOutput == ChronoParseOutput(<<>>, <<>>)

\* one call the parser makes outside itself: new Date() or chrono.parse(...)
ClockRead(instant) ==
    [op |-> "new Date()", text |-> <<>>, instant |-> instant, timezone |-> 0,
     forwardDate |-> FALSE]

ChronoCall(text, instant, timezone, forwardDate) ==
    [op |-> "chrono.parse", text |-> text, instant |-> instant, timezone |-> timezone,
     forwardDate |-> forwardDate]

\* how a function ends: a value returned or an Error thrown, and the outside
\* calls it made on the way
Returned(value, events) ==
    [threw |-> FALSE, isError |-> FALSE, message |-> <<>>, value |-> value, events |-> events]

Thrown(message, events) ==
    [threw |-> TRUE, isError |-> TRUE, message |-> message, value |-> NoParseOutput,
     events |-> events]

\* the second half of normalizeReference: parsed is new Date(ref)
CheckParsed(ref, parsed) ==
    IF IsNaNTime(parsed) THEN
        [threw |-> TRUE, message |-> MsgInvalidReferencePrefix \o ref.s, value |-> NaNTime,
         events |-> <<>>]
    ELSE [threw |-> FALSE, message |-> <<>>, value |-> parsed, events |-> <<>>]

\* the blank test without trim(): only an absent or empty reference is blank
IsBlankNoTrim(ref) == ~Truthy(ref)

\* !ref || ref.trim() === "", for an absent reference or a string
IsBlank(ref) == ~Truthy(ref) \/ TrimIsEmpty(ref.s)

\* normalizeReference(ref), with the wall clock it reads
normalizeReference(ref, clock) ==
    IF Truthy(ref) /\ ref.t # "string" THEN
        \* ref.trim is not a function: a TypeError
        [threw |-> TRUE, message |-> MsgTrimNotAFunction, value |-> NaNTime, events |-> <<>>]
    ELSE IF IsBlank(ref) THEN
        [threw |-> FALSE, message |-> <<>>, value |-> clock, events |-> <<ClockRead(clock)>>]
    ELSE CheckParsed(ref, DateParse(ref.s))

\* a match of chrono.parse: its text, its start and, for a range, its end
NoComponent == Component([k \in Keys |-> "absent"], ValuesZero, NaNTime)

ParsedResult(text, start, end, hasEnd) ==
    [text |-> text, start |-> start, end |-> end, hasEnd |-> hasEnd]

\* ParseResult; end is NoOutput when the entry has no end member
ParseResult(text, isRange, start, end, hasEnd) ==
    [text |-> text, isRange |-> isRange, start |-> start, end |-> end, hasEnd |-> hasEnd]

\* the callback that flags a range and leaves its end out
ConvertResultEndDropped(result, timezoneOffset) ==
    ParseResult(result.text,
                result.hasEnd,
                convertParsedComponent(result.start, timezoneOffset),
                NoOutput,
                FALSE)

\* the callback of parseResults.map
ConvertResult(result, timezoneOffset) ==
    ParseResult(result.text,
                result.hasEnd,
                convertParsedComponent(result.start, timezoneOffset),
                IF result.hasEnd THEN convertParsedComponent(result.end, timezoneOffset)
                ELSE NoOutput,
                result.hasEnd)

\* the selection that keeps the last match instead of the first
SelectLast(mode, matches) ==
    IF mode.t = "string" /\ mode.s = ModeAll THEN matches
    ELSE IF Len(matches) = 0 THEN matches
    ELSE <<matches[Len(matches)]>>

\* input.mode === "all" ? parse(...) : parse(...).slice(0, 1)
Select(mode, matches) ==
    IF mode.t = "string" /\ mode.s = ModeAll THEN matches
    ELSE SubSeq(matches, 1, IF Len(matches) < 1 THEN Len(matches) ELSE 1)

\* the summary that tells a range by its first entry whatever the count
SummaryRangeFirst(results) ==
    IF results[1].isRange
      THEN SummaryRange \o results[1].start.iso \o SummaryTo \o results[1].end.iso
      ELSE IF Len(results) = 1 THEN SummaryParsed \o results[1].start.iso
      ELSE SummaryCountPrefix \o NumberToString(Len(results)) \o SummaryCountSuffix

\* the summary of a non-empty result list
Summary(results) ==
    IF Len(results) = 1
      THEN IF results[1].isRange
             THEN SummaryRange \o results[1].start.iso \o SummaryTo \o results[1].end.iso
             ELSE SummaryParsed \o results[1].start.iso
      ELSE SummaryCountPrefix \o NumberToString(Len(results)) \o SummaryCountSuffix

\* the rendering offset read after the grammar shifted it: unix taken from
\* the shifted Date
ProjectShifted(parseResults, timezoneOffset) ==
    [i \in 1..Len(parseResults) |->
        LET r == ConvertResult(parseResults[i], timezoneOffset)
        IN  [r EXCEPT !.start.unix = LocalTime(@, timezoneOffset)]]

\* parseResults.map(...)
Project(parseResults, timezoneOffset) ==
    [i \in 1..Len(parseResults) |-> ConvertResult(parseResults[i], timezoneOffset)]

\* an empty selection reported as an error (ChronoErrorCode.UNPARSABLE)
NoMatchThrown(events) == Thrown(<<"U", "N", "P", "A", "R", "S", "A", "B", "L", "E">>, events)

\* the early return for an empty selection
NoMatch(events) == Returned(ChronoParseOutput(<<>>, SummaryNone), events)

\* the text check that lets an empty string through
TextMissingOnlyUndefined(text) == text.t = "undefined"

\* !input.text || typeof input.text !== "string"
TextMissing(text) == ~Truthy(text) \/ text.t # "string"

\* the end of parseDateTime: the summary and the return
Summarized(results, events) == Returned(ChronoParseOutput(results, Summary(results)), events)

\* component.date() is a call into the grammar's library: besides a time value
\* it may throw
DateThrows == [day |-> 0, ms |-> 0 - 2]
MsgDateFailed == <<"d", "a", "t", "e", " ", "f", "a", "i", "l", "e", "d">>

\* the map callback throws for this match: in converting its start, or its end
ProjectionThrows(result) ==
    \/ date(result.start) = DateThrows
    \/ result.hasEnd /\ date(result.end) = DateThrows

\* the matches the callback converts without throwing
Projectable(parseResults) == SelectSeq(parseResults, LAMBDA r : ~ProjectionThrows(r))

\* the conversion that skips a match it cannot convert and returns the rest
ConvertedPartial(parseResults, timezoneOffset, events) ==
    IF Len(Projectable(parseResults)) = 0 THEN NoMatch(events)
    ELSE Summarized(Project(Projectable(parseResults), timezoneOffset), events)

\* parseDateTime from the selection on
Converted(parseResults, timezoneOffset, events) ==
    IF Len(parseResults) = 0 THEN NoMatch(events)
    ELSE IF \E i \in 1..Len(parseResults) : ProjectionThrows(parseResults[i])
      THEN Thrown(MsgDateFailed, events)
    ELSE Summarized(Project(parseResults, timezoneOffset), events)

\* parseDateTime from the chrono.parse call on
Parsed(input, timezoneOffset, outcome, events) ==
    IF outcome.threw
      THEN [Thrown(outcome.message, events) EXCEPT !.isError = outcome.isError]
      ELSE Converted(Select(input.mode, outcome.matches), timezoneOffset, events)

\* parseDateTime from "Normalize inputs" on: refDate is what normalizeReference did
Normalized(input, refDate, timezoneOffset, forwardDate, outcome) ==
    IF refDate.threw THEN Thrown(refDate.message, refDate.events)
    ELSE Parsed(input, timezoneOffset, outcome,
                refDate.events
                \o <<ChronoCall(input.text.s, refDate.value, timezoneOffset, forwardDate)>>)

\* parseDateTime(input): clock is what new Date() reads, outcome is what
\* chrono.parse does with the arguments it is given
parseDateTime(input, clock, outcome) ==
    IF TextMissing(input.text) THEN Thrown(MsgTextRequired, <<>>)
    ELSE Normalized(input,
                    normalizeReference(input.reference, clock),
                    IF Nullish(input.timezone_offset) THEN 0 ELSE input.timezone_offset.n,
                    IF Nullish(input.forwardOnly) THEN TRUE ELSE input.forwardOnly.n = 1,
                    outcome)

----------------------------------------------------------------------------
(* handler.ts: handleMCPRequest *)

MsgUnknownError == <<"U", "n", "k", "n", "o", "w", "n", " ", "e", "r", "r", "o", "r">>
MsgInvalidRequest == <<"I", "n", "v", "a", "l", "i", "d", " ", "R", "e", "q", "u", "e", "s", "t">>
MsgUnknownTool == <<"U", "n", "k", "n", "o", "w", "n", " ", "t", "o", "o", "l">>
MsgMethodNotFound == <<"M", "e", "t", "h", "o", "d", " ", "n", "o", "t", " ", "f", "o", "u", "n", "d">>
MsgBadJson == <<"U", "n", "e", "x", "p", "e", "c", "t", "e", "d", " ", "e", "n", "d", " ", "o", "f", " ", "J", "S", "O", "N", " ", "i", "n", "p", "u", "t">>
WordRequired == <<"r", "e", "q", "u", "i", "r", "e", "d">>
WordInvalid == <<"I", "n", "v", "a", "l", "i", "d">>

InvalidRequest == -32600
MethodNotFound == -32601
InvalidParams == -32602
InternalError == -32603

EmptyArgs == ChronoParseInput(Undefined, Undefined, Undefined, Undefined, Undefined)

\* JSONRPCRequest: the parsed body.  params and params.arguments may be absent
JSONRPCRequest(jsonrpc, id, method, hasParams, name, hasArguments, arguments) ==
    [jsonrpc |-> jsonrpc, id |-> id, method |-> method, hasParams |-> hasParams,
     name |-> name, hasArguments |-> hasArguments, arguments |-> arguments]

\* the result member of a response: of initialize, of tools/list (the default
\* offset its descriptions show, and the "+HH:MM" of the tool description), of
\* tools/call (the ChronoParseOutput that is serialized into content[0].text),
\* or {} for notifications/initialized
NoResult == [kind |-> "none", output |-> NoParseOutput, shown |-> Undefined, zone |-> <<>>]
InitializeResult == [NoResult EXCEPT !.kind = "initialize"]
EmptyResult == [NoResult EXCEPT !.kind = "empty"]
ContentResult(output) == [NoResult EXCEPT !.kind = "content", !.output = output]

ToolsResult(defaultTimezoneOffset) ==
    [NoResult EXCEPT
        !.kind = "tools",
        !.shown = defaultTimezoneOffset,
        !.zone = IF defaultTimezoneOffset = Undefined THEN <<>>
                 ELSE LET offsetSign == IF defaultTimezoneOffset.n >= 0 THEN <<"+">> ELSE <<"-">>
                          absOffset == Abs(defaultTimezoneOffset.n)
                          hours == PadStart(NumberToString(absOffset \div 60), 2, "0")
                          mins == PadStart(NumberToString(absOffset % 60), 2, "0")
                      IN  offsetSign \o hours \o <<":">> \o mins]

\* JSONRPCResponse, with the outside calls made while it was computed
RpcResult(id, result, events) ==
    [id |-> id, hasResult |-> TRUE, hasError |-> FALSE, code |-> 0, message |-> <<>>,
     result |-> result, events |-> events]

RpcError(id, code, message, events) ==
    [id |-> id, hasResult |-> FALSE, hasError |-> TRUE, code |-> code, message |-> message,
     result |-> NoResult, events |-> events]

NoRpc ==
    [id |-> Undefined, hasResult |-> FALSE, hasError |-> FALSE, code |-> 0, message |-> <<>>,
     result |-> NoResult, events |-> <<>>]

\* the default applied to any falsy argument, an explicit 0 among them
MergeDefaultFalsy(args, defaultTimezoneOffset) ==
    IF ~Truthy(args.timezone_offset) /\ defaultTimezoneOffset # Undefined
      THEN [args EXCEPT !.timezone_offset = defaultTimezoneOffset]
      ELSE args

\* the arguments with the query parameter's default applied when they have none
MergeDefault(args, defaultTimezoneOffset) ==
    IF args.timezone_offset = Undefined /\ defaultTimezoneOffset # Undefined
      THEN [args EXCEPT !.timezone_offset = defaultTimezoneOffset]
      ELSE args

\* the catch block of tools/call: the code of a failure, from its message
ErrorCode(message) ==
    IF Includes(message, WordRequired) \/ Includes(message, WordInvalid)
      THEN InvalidParams ELSE InternalError

\* the response of a failure with this message
ErrorReply(id, message, events) == RpcError(id, ErrorCode(message), message, events)

\* the try block of tools/call after parseDateTime, and its catch block
CallReply(id, result) ==
    IF result.threw
      THEN ErrorReply(id, IF result.isError THEN result.message ELSE MsgUnknownError,
                      result.events)
      ELSE RpcResult(id, ContentResult(result.value), result.events)

handleMCPRequest(request, defaultTimezoneOffset, clock, outcome) ==
    CASE request.method = "initialize" -> RpcResult(request.id, InitializeResult, <<>>)
      [] request.method = "tools/list" ->
            RpcResult(request.id, ToolsResult(defaultTimezoneOffset), <<>>)
      [] request.method = "tools/call" ->
            IF ~request.hasParams \/ request.name # "chrono_parse"
              THEN RpcError(request.id, InvalidParams, MsgUnknownTool, <<>>)
              ELSE
                CallReply(request.id,
                          parseDateTime(
                              MergeDefault(
                                  IF request.hasArguments THEN request.arguments ELSE EmptyArgs,
                                  defaultTimezoneOffset),
                              clock, outcome))
      [] request.method = "notifications/initialized" ->
            RpcResult(Undefined, EmptyResult, <<>>)
      [] OTHER -> RpcError(request.id, MethodNotFound, MsgMethodNotFound, <<>>)

----------------------------------------------------------------------------
(* handler.ts: fetch *)

PathPrefix == <<"/", "c", "h", "r", "o", "n", "o">>

\* String.prototype.startsWith
StartsWith(s, prefix) == Len(s) >= Len(prefix) /\ SubSeq(s, 1, Len(prefix)) = prefix

\* parseInt(text, 10) of a query parameter written as an optional "-" and digits
ParseInt(text) ==
    IF text # <<>> /\ text[1] = "-" THEN Num(-DigitsToNat(SubSeq(text, 2, Len(text))))
    ELSE Num(DigitsToNat(text))

\* timezoneOffsetParam ? parseInt(timezoneOffsetParam, 10) : undefined
DefaultTimezoneOffset(query) ==
    IF Truthy(query) THEN ParseInt(query.s) ELSE Undefined

\* an HTTP request: query is url.searchParams.get("timezone_offset") (JsNull
\* when the URL has no such parameter); wellFormed says whether the body is JSON
HttpRequest(method, path, query, wellFormed, body) ==
    [method |-> method, path |-> path, query |-> query, wellFormed |-> wellFormed,
     body |-> body]

----------------------------------------------------------------------------
(* The environment: the grammar, the clock, the callers *)

TextTomorrow == <<"t", "o", "m", "o", "r", "r", "o", "w", " ", "a", "t", " ", "5", "p", "m">>
TextRange == <<"M", "o", "n", "d", "a", "y", " ", "t", "o", " ", "F", "r", "i", "d", "a", "y">>
RefJst == <<"2", "0", "2", "5", "-", "1", "0", "-", "0", "4", "T", "1", "0", ":", "0", "0", ":", "0", "0", "+", "0", "9", ":", "0", "0">>
RefGarbage == <<"n", "o", "t", " ", "a", " ", "d", "a", "t", "e">>
RefBlank == <<" ", " ", " ">>
Query540 == <<"5", "4", "0">>
QueryMinus300 == <<"-", "3", "0", "0">>
MsgInvalidTimeValue == <<"I", "n", "v", "a", "l", "i", "d", " ", "t", "i", "m", "e", " ", "v", "a", "l", "u", "e">>
MsgStackOverflow == <<"M", "a", "x", "i", "m", "u", "m", " ", "c", "a", "l", "l", " ", "s", "t", "a", "c", "k", " ", "s", "i", "z", "e", " ", "e", "x", "c", "e", "e", "d", "e", "d">>

\* the most matches chrono.parse returns for one text
MaxMatches == 2

\* the most minutes the wall clock advances
MaxTicks == 1

Hour == 60 * MsPerMinute

\* "tomorrow at 5pm" against 2025-10-04: 17:00 on 2025-10-05 in the zone the
\* grammar reads the clock time in (the reference's timezone)
Match5pm(zone) ==
    ParsedResult(
        TextTomorrow,
        Component(
            [k \in Keys |->
                CASE k \in {"year", "month", "day", "hour"} -> "certain"
                  [] k = "timezoneOffset" -> "absent"
                  [] OTHER -> "implied"],
            [k \in Keys |->
                CASE k = "year" -> 2025 [] k = "month" -> 10 [] k = "day" -> 5
                  [] k = "hour" -> 17 [] OTHER -> 0],
            AddMinutes(At(2025, 10, 5, 17 * Hour), -zone)),
        NoComponent,
        FALSE)

\* "Monday to Friday" against 2025-10-04: a range, every field filled in
MatchRange ==
    ParsedResult(
        TextRange,
        Component(
            [k \in Keys |-> "implied"],
            [k \in Keys |->
                CASE k = "year" -> 2025 [] k = "month" -> 10 [] k = "day" -> 6
                  [] k = "hour" -> 12 [] OTHER -> 0],
            At(2025, 10, 6, 12 * Hour)),
        Component(
            [k \in Keys |-> "implied"],
            [k \in Keys |->
                CASE k = "year" -> 2025 [] k = "month" -> 10 [] k = "day" -> 10
                  [] k = "hour" -> 12 [] OTHER -> 0],
            At(2025, 10, 10, 12 * Hour)),
        TRUE)

MatchPool == {Match5pm(0), Match5pm(540), MatchRange}

\* matches with a component whose date() throws: the start of a single
\* instant, the end of a range
MatchStartFails == [Match5pm(0) EXCEPT !.start.date = DateThrows]
MatchEndFails == [MatchRange EXCEPT !.end.date = DateThrows]
FailingPool == {MatchStartFails, MatchEndFails}

\* failing components are among the matches when one exchange is open at a time
Pool == IF DOMAIN conns = {1} THEN MatchPool \cup FailingPool ELSE MatchPool

\* what chrono.parse may do: return matches, throw an Error, throw a non-Error
Matches(matches) == [threw |-> FALSE, isError |-> FALSE, message |-> <<>>, matches |-> matches]
Throws(isError, message) ==
    [threw |-> TRUE, isError |-> isError, message |-> message, matches |-> <<>>]

NoOutcome == [threw |-> FALSE, isError |-> FALSE, message |-> <<>>, matches |-> <<"none">>]

GrammarOutcomes ==
    { Matches(m) : m \in UNION {[1..k -> Pool] : k \in 0..MaxMatches} }
    \cup { Throws(TRUE, MsgInvalidTimeValue), Throws(TRUE, MsgStackOverflow),
           Throws(FALSE, MsgInvalidTimeValue) }

\* the wall clock: the reference instant of the tests, advancing by minutes
BootTime == At(2025, 10, 4, 1 * Hour)
ClockTime(ticks) == AddMinutes(BootTime, ticks)

\* the requests the callers send
CallBody(args) ==
    JSONRPCRequest("2.0", Num(1), "tools/call", TRUE, "chrono_parse", TRUE, args)

OtherBodies ==
    { JSONRPCRequest("1.0", Num(1), "tools/call", TRUE, "chrono_parse", TRUE, EmptyArgs),
      JSONRPCRequest("2.0", Num(1), "initialize", FALSE, "", FALSE, EmptyArgs),
      JSONRPCRequest("2.0", Num(1), "tools/list", FALSE, "", FALSE, EmptyArgs),
      JSONRPCRequest("2.0", Undefined, "notifications/initialized", FALSE, "", FALSE, EmptyArgs),
      JSONRPCRequest("2.0", Num(1), "resources/list", FALSE, "", FALSE, EmptyArgs),
      JSONRPCRequest("2.0", Num(1), "tools/call", FALSE, "", FALSE, EmptyArgs),
      JSONRPCRequest("2.0", Num(1), "tools/call", TRUE, "other_tool", TRUE, EmptyArgs),
      JSONRPCRequest("2.0", Num(1), "tools/call", TRUE, "chrono_parse", FALSE, EmptyArgs) }

AllArguments ==
    { ChronoParseInput(text, reference, timezone_offset, forwardOnly, mode) :
        text \in {Undefined, Str(<<>>), Num(42), Str(TextTomorrow)},
        reference \in {Undefined, Str(<<>>), Str(RefBlank), Str(RefGarbage), Num(5), Str(RefJst)},
        timezone_offset \in {Undefined, JsNull, Num(0), Num(330)},
        forwardOnly \in {Undefined, Bool(FALSE)},
        mode \in {Undefined, Str(ModeFirst), Str(ModeAll)} }

\* no timezone_offset parameter, "?timezone_offset=" and two parameters with a value
Queries == {JsNull, Str(<<>>), Str(Query540), Str(QueryMinus300)}

AllTraffic ==
    { HttpRequest("GET", PathPrefix, JsNull, TRUE, CallBody(EmptyArgs)),
      HttpRequest("POST", <<"/">>, JsNull, TRUE, CallBody(EmptyArgs)),
      HttpRequest("POST", PathPrefix, JsNull, FALSE, CallBody(EmptyArgs)) }
    \cup { HttpRequest("POST", PathPrefix, q, TRUE, b) : q \in Queries, b \in OtherBodies }
    \cup { HttpRequest("POST", PathPrefix, q, TRUE, CallBody(a)) :
             q \in Queries, a \in AllArguments }

\* two callers whose requests differ at most in timezone_offset and mode
PairTraffic ==
    { HttpRequest("POST", PathPrefix, JsNull, TRUE,
                  CallBody(ChronoParseInput(Str(TextTomorrow), Str(RefJst), tz, Undefined, mode))) :
        tz \in {Undefined, Num(540)}, mode \in {Undefined, Str(ModeAll)} }

\* two callers at once: tools/list requests and tools/call requests under
\* different timezone_offset query parameters, one of the calls reading the
\* wall clock
InFlightTraffic ==
    { HttpRequest("POST", PathPrefix, q, TRUE,
                  JSONRPCRequest("2.0", Num(1), "tools/list", FALSE, "", FALSE, EmptyArgs)) :
        q \in {JsNull, Str(Query540), Str(QueryMinus300)} }
    \cup { HttpRequest("POST", PathPrefix, Str(QueryMinus300), TRUE,
                       CallBody(ChronoParseInput(Str(TextTomorrow), Undefined, Undefined,
                                                 Undefined, Str(ModeAll)))) }
    \cup { HttpRequest("POST", PathPrefix, Str(Query540), TRUE,
                       CallBody(ChronoParseInput(Str(TextTomorrow), Str(RefJst), Undefined,
                                                 Undefined, Undefined))) }

----------------------------------------------------------------------------
(* The Worker *)

NoRequest == HttpRequest("", <<>>, JsNull, TRUE, CallBody(EmptyArgs))

IdleConn == [pc |-> "idle", req |-> NoRequest, status |-> 0, rpc |-> NoRpc, outcome |-> NoOutcome]

\* the chrono.parse call among the outside calls of a response, if any
Called(events) == \E i \in 1..Len(events) : events[i].op = "chrono.parse"
CallOf(events) == events[CHOOSE i \in 1..Len(events) : events[i].op = "chrono.parse"]

\* chrono.parse is a function of its arguments: an outcome already seen for the
\* same arguments by an exchange still open is the outcome now
SameAsBefore(c, events, outcome) ==
    \A d \in DOMAIN conns :
        (/\ d # c
         /\ Called(events)
         /\ Called(conns[d].rpc.events)
         /\ CallOf(conns[d].rpc.events) = CallOf(events))
            => conns[d].outcome = outcome

Init ==
    /\ conns = [c \in {1} |-> IdleConn]
    /\ now = 0
    /\ sample = [NoSample EXCEPT !.offset = 0]

InitPair ==
    /\ conns = [c \in {1, 2} |-> IdleConn]
    /\ now = 0
    /\ sample = [NoSample EXCEPT !.offset = 1]

InitInFlight ==
    /\ conns = [c \in {1, 2} |-> IdleConn]
    /\ now = 0
    /\ sample = [NoSample EXCEPT !.offset = 2]

\* the callers of this run: everything a caller may send when one exchange is
\* open at a time, the paired requests or the in-flight mix when two are
Traffic ==
    CASE sample.offset = 1 -> PairTraffic
      [] sample.offset = 2 -> InFlightTraffic
      [] OTHER -> AllTraffic

\* fetch up to "await request.json()"
Receive(c) ==
    /\ conns[c].pc = "idle"
    /\ \E req \in Traffic :
         conns' = [conns EXCEPT ![c] =
            IF req.method # "POST" THEN [IdleConn EXCEPT !.pc = "done", !.req = req, !.status = 405]
            ELSE IF ~StartsWith(req.path, PathPrefix)
              THEN [IdleConn EXCEPT !.pc = "done", !.req = req, !.status = 404]
            ELSE [IdleConn EXCEPT !.pc = "reading", !.req = req]]
    /\ UNCHANGED <<now, sample>>

\* the response kept in one place for the whole Worker: an exchange that is
\* still waiting to respond gets the response of the one handled last
AwaitShared(c, outcome, response) ==
    /\ SameAsBefore(c, response.events, outcome)
    /\ conns' = [d \in DOMAIN conns |->
          IF d = c
            THEN [conns[d] EXCEPT !.pc = "handled", !.rpc = response,
                     !.outcome = IF Called(response.events) THEN outcome ELSE NoOutcome]
          ELSE IF conns[d].pc = "handled" THEN [conns[d] EXCEPT !.rpc = response]
          ELSE conns[d]]

\* the exchange holds the response its handleMCPRequest promise resolves to
Await(c, outcome, response) ==
    /\ SameAsBefore(c, response.events, outcome)
    /\ conns' = [conns EXCEPT ![c] =
          [@ EXCEPT !.pc = "handled", !.rpc = response,
                    !.outcome = IF Called(response.events) THEN outcome ELSE NoOutcome]]

\* fetch from the parsed body to "await handleMCPRequest(...)": the whole of
\* handleMCPRequest runs here, it has no await of its own
Handle(c) ==
    /\ conns[c].pc = "reading"
    /\ LET req == conns[c].req
       IN  \/ /\ ~req.wellFormed
              /\ conns' = [conns EXCEPT ![c] =
                    [@ EXCEPT !.pc = "done", !.status = 200,
                              !.rpc = RpcError(Undefined, InternalError, MsgBadJson, <<>>)]]
           \/ /\ req.wellFormed
              /\ req.body.jsonrpc # "2.0"
              /\ conns' = [conns EXCEPT ![c] =
                    [@ EXCEPT !.pc = "done", !.status = 200,
                              !.rpc = RpcError(req.body.id, InvalidRequest, MsgInvalidRequest, <<>>)]]
           \/ /\ req.wellFormed
              /\ req.body.jsonrpc = "2.0"
              /\ \E outcome \in GrammarOutcomes :
                   Await(c, outcome,
                         handleMCPRequest(req.body, DefaultTimezoneOffset(req.query),
                                          ClockTime(now), outcome))
    /\ UNCHANGED <<now, sample>>

\* fetch after the await: new Response(JSON.stringify(response), {status: 200})
Respond(c) ==
    /\ conns[c].pc = "handled"
    /\ conns' = [conns EXCEPT ![c] = [@ EXCEPT !.pc = "done", !.status = 200]]
    /\ UNCHANGED <<now, sample>>

\* the caller has its response; nothing of the exchange is kept
Close(c) ==
    /\ conns[c].pc = "done"
    /\ conns' = [conns EXCEPT ![c] = IdleConn]
    /\ UNCHANGED <<now, sample>>

\* time passes
Tick ==
    /\ now < MaxTicks
    /\ now' = now + 1
    /\ UNCHANGED <<conns, sample>>

Next ==
    \/ \E c \in DOMAIN conns : Receive(c)
    \/ \E c \in DOMAIN conns : Handle(c)
    \/ \E c \in DOMAIN conns : Respond(c)
    \/ \E c \in DOMAIN conns : Close(c)
    \/ Tick

Spec == Init /\ [][Next]_vars

SpecPair == InitPair /\ [][Next]_vars
SpecInFlight == InitInFlight /\ [][Next]_vars

----------------------------------------------------------------------------
(* Claims about requests, under Spec and SpecPair *)

\* the exchange is a chrono_parse tools/call whose handleMCPRequest has run
ParseAnswered(c) ==
    /\ conns[c].pc \in {"handled", "done"}
    /\ conns[c].status \in {0, 200}
    /\ conns[c].req.wellFormed
    /\ conns[c].req.body.jsonrpc = "2.0"
    /\ conns[c].req.body.method = "tools/call"
    /\ conns[c].req.body.hasParams
    /\ conns[c].req.body.name = "chrono_parse"

\* the arguments of the call as sent, and the offset parseDateTime works with
SentArgs(c) ==
    IF conns[c].req.body.hasArguments THEN conns[c].req.body.arguments ELSE EmptyArgs

OutputOf(c) == conns[c].rpc.result.output

Succeeded(c) == ParseAnswered(c) /\ conns[c].rpc.hasResult

ModeIsAll(c) == SentArgs(c).mode = Str(ModeAll)
ModeIsFirst(c) == SentArgs(c).mode \in {Undefined, Str(ModeFirst)}

\* an entry carries the text, the range flag and the resolved instants of a match
ProjectionOf(entry, match) ==
    /\ entry.text = match.text
    /\ entry.isRange = match.hasEnd
    /\ entry.hasEnd = match.hasEnd
    /\ entry.start.unix = match.start.date
    /\ entry.start.timezoneOffset = get(match.start, "timezoneOffset")
    /\ match.hasEnd => entry.end.unix = match.end.date

\* the unix values of a response, entry by entry
UnixOf(output) ==
    [i \in 1..Len(output.results) |->
        <<output.results[i].start.unix, output.results[i].end.unix>>]

\* C1 as stated: two requests that differ only in timezone_offset get the
\* same unix values.
C1_UnixIndependentOfOffset ==
    \A c, d \in DOMAIN conns :
        (/\ Succeeded(c) /\ Succeeded(d)
         /\ SentArgs(c).text = SentArgs(d).text
         /\ SentArgs(c).reference = SentArgs(d).reference
         /\ SentArgs(c).forwardOnly = SentArgs(d).forwardOnly
         /\ SentArgs(c).mode = SentArgs(d).mode)
            => UnixOf(OutputOf(c)) = UnixOf(OutputOf(d))

\* C1, amended: timezone_offset is handed to the grammar as the reference
\* timezone, and unix is the instant the grammar resolved, whatever the
\* rendering offset; so two requests that differ only in timezone_offset get
\* the same unix values whenever the grammar returns the same matches for both.
C1_UnixFromGrammar ==
    \A c \in DOMAIN conns :
        Succeeded(c) =>
            /\ CallOf(conns[c].rpc.events).timezone =
                   (IF SentArgs(c).timezone_offset = Undefined THEN 0
                    ELSE SentArgs(c).timezone_offset.n)
            /\ \A i \in 1..Len(OutputOf(c).results) :
                   /\ OutputOf(c).results[i].start.unix = conns[c].outcome.matches[i].start.date
                   /\ conns[c].outcome.matches[i].hasEnd =>
                        OutputOf(c).results[i].end.unix = conns[c].outcome.matches[i].end.date
            /\ \A d \in DOMAIN conns :
                   (/\ Succeeded(d)
                    /\ SentArgs(c).text = SentArgs(d).text
                    /\ SentArgs(c).reference = SentArgs(d).reference
                    /\ SentArgs(c).forwardOnly = SentArgs(d).forwardOnly
                    /\ SentArgs(c).mode = SentArgs(d).mode
                    /\ conns[c].outcome = conns[d].outcome)
                       => UnixOf(OutputOf(c)) = UnixOf(OutputOf(d))

\* two answered requests, one at offset 0 and one at 540, the same matches
C1_Witness ==
    /\ DOMAIN conns = {1, 2}
    /\ Succeeded(1) /\ Succeeded(2)
    /\ SentArgs(1).timezone_offset = Undefined /\ SentArgs(2).timezone_offset = Num(540)
    /\ SentArgs(1).mode = Str(ModeAll) /\ SentArgs(2).mode = Str(ModeAll)
    /\ conns[1].outcome = Matches(<<Match5pm(540), MatchRange>>)
    /\ conns[2].outcome = conns[1].outcome
    /\ OutputOf(1).results[1].start.iso # OutputOf(2).results[1].start.iso
    /\ UnixOf(OutputOf(1)) = UnixOf(OutputOf(2))

\* C2: in mode "first" (or with no mode) there is at most one entry, the
\* projection of the first match; in mode "all" there are as many entries as
\* the grammar returned matches, entry i the projection of match i.
C2_Selection ==
    \A c \in DOMAIN conns :
        Succeeded(c) =>
            LET results == OutputOf(c).results
                matches == conns[c].outcome.matches
            IN  /\ ModeIsFirst(c) =>
                      /\ Len(results) <= 1
                      /\ Len(results) = (IF Len(matches) = 0 THEN 0 ELSE 1)
                      /\ Len(results) = 1 => ProjectionOf(results[1], matches[1])
                /\ ModeIsAll(c) =>
                      /\ Len(results) = Len(matches)
                      /\ \A i \in 1..Len(results) : ProjectionOf(results[i], matches[i])

C2_Witness ==
    \E c \in DOMAIN conns :
        /\ Succeeded(c) /\ ModeIsAll(c)
        /\ conns[c].outcome = Matches(<<MatchRange, Match5pm(0)>>)
        /\ Len(OutputOf(c).results) = 2
        /\ OutputOf(c).results[1].text = TextRange
        /\ OutputOf(c).results[2].text = TextTomorrow

\* C6: the summary is a function of the final result list: none found for 0
\* entries, "Parsed: " + start.iso for one entry that is no range, "Parsed
\* range: " + start.iso + " to " + end.iso for one range, "Parsed " + count +
\* " date/time expressions" for more than one, ranges among them or not.
C6_Summary ==
    \A c \in DOMAIN conns :
        Succeeded(c) =>
            LET results == OutputOf(c).results
                summary == OutputOf(c).summary
            IN  /\ Len(results) = 0 => summary = SummaryNone
                /\ (Len(results) = 1 /\ ~results[1].isRange) =>
                      summary = SummaryParsed \o results[1].start.iso
                /\ (Len(results) = 1 /\ results[1].isRange) =>
                      summary = SummaryRange \o results[1].start.iso
                                \o SummaryTo \o results[1].end.iso
                /\ Len(results) > 1 =>
                      summary = SummaryCountPrefix \o NatToString(Len(results))
                                \o SummaryCountSuffix

\* two entries, the first of them a range
C6_Witness ==
    \E c \in DOMAIN conns :
        /\ Succeeded(c)
        /\ Len(OutputOf(c).results) = 2
        /\ OutputOf(c).results[1].isRange
        /\ OutputOf(c).summary = SummaryCountPrefix \o <<"2">> \o SummaryCountSuffix

\* the text argument is absent, empty or no string
TextInvalid(c) == SentArgs(c).text.t # "string" \/ SentArgs(c).text.s = <<>>

\* C7: with text absent, empty or not a string the call fails with "text is
\* required and must be a string" and no result, before the reference is
\* resolved (no clock read, no invalid-reference error) and without a call of
\* the grammar.
C7_TextRequired ==
    \A c \in DOMAIN conns :
        (ParseAnswered(c) /\ TextInvalid(c)) =>
            /\ conns[c].rpc.hasError /\ ~conns[c].rpc.hasResult
            /\ conns[c].rpc.message = MsgTextRequired
            /\ conns[c].rpc.events = <<>>
            /\ conns[c].outcome = NoOutcome

\* an empty text with a reference that is no date
C7_Witness ==
    \E c \in DOMAIN conns :
        /\ ParseAnswered(c)
        /\ SentArgs(c).text = Str(<<>>)
        /\ SentArgs(c).reference = Str(RefGarbage)
        /\ conns[c].rpc.message = MsgTextRequired

\* the instants the wall clock has shown so far
ClockSoFar == {ClockTime(k) : k \in 0..now}

\* C8: with a valid text, an absent, empty or whitespace-only reference makes
\* the parser read the wall clock and hand that instant to the grammar; a
\* non-blank string that is no instant fails with "Invalid reference date: "
\* + reference, no result and no call of the grammar; any other string is
\* handed to the grammar as the instant it denotes, and no clock is read.
C8_Reference ==
    \A c \in DOMAIN conns :
        (ParseAnswered(c) /\ ~TextInvalid(c)
         /\ SentArgs(c).reference.t \in {"undefined", "string"}) =>
            LET ref == SentArgs(c).reference
                events == conns[c].rpc.events
                blank == ref.t = "undefined" \/ \A i \in 1..Len(ref.s) : ref.s[i] = " "
            IN  /\ blank =>
                      /\ Len(events) = 2
                      /\ events[1].op = "new Date()" /\ events[1].instant \in ClockSoFar
                      /\ events[2].op = "chrono.parse" /\ events[2].instant = events[1].instant
                /\ (~blank /\ IsNaNTime(DateParse(ref.s))) =>
                      /\ conns[c].rpc.hasError /\ ~conns[c].rpc.hasResult
                      /\ conns[c].rpc.message = MsgInvalidReferencePrefix \o ref.s
                      /\ events = <<>>
                      /\ conns[c].outcome = NoOutcome
                /\ (~blank /\ ~IsNaNTime(DateParse(ref.s))) =>
                      /\ Len(events) = 1
                      /\ events[1].op = "chrono.parse"
                      /\ events[1].instant = DateParse(ref.s)

\* a whitespace-only reference, answered from the wall clock
C8_Witness ==
    \E c \in DOMAIN conns :
        /\ Succeeded(c)
        /\ SentArgs(c).reference = Str(RefBlank)
        /\ Len(conns[c].rpc.events) = 2
        /\ conns[c].rpc.events[2].instant = ClockTime(now)
        /\ now = 1

\* C9: when the grammar returns no match the call succeeds with results = []
\* and the summary "No date/time expressions found", in either mode: the
\* response carries a result and no error.
C9_NoMatch ==
    \A c \in DOMAIN conns :
        (ParseAnswered(c) /\ Called(conns[c].rpc.events)
         /\ conns[c].outcome = Matches(<<>>)) =>
            /\ conns[c].rpc.hasResult /\ ~conns[c].rpc.hasError
            /\ OutputOf(c).results = <<>>
            /\ OutputOf(c).summary = SummaryNone

C9_Witness ==
    \E c \in DOMAIN conns :
        /\ Succeeded(c) /\ ModeIsAll(c)
        /\ conns[c].outcome = Matches(<<>>)
        /\ OutputOf(c).summary = SummaryNone

\* C10: a failed chrono_parse call is classified by its kind: a missing text
\* and an unparseable reference string are invalid params (-32602), a failure
\* raised by the grammar is an internal error (-32603) whatever its message.
C10_ErrorClass ==
    \A c \in DOMAIN conns :
        (ParseAnswered(c) /\ conns[c].rpc.hasError) =>
            /\ TextInvalid(c) => conns[c].rpc.code = -32602
            /\ (~TextInvalid(c) /\ SentArgs(c).reference.t = "string"
                /\ conns[c].rpc.events = <<>>) => conns[c].rpc.code = -32602
            /\ (Called(conns[c].rpc.events) /\ conns[c].outcome.threw) =>
                  conns[c].rpc.code = -32603

\* the offset parseDateTime worked with: the reference timezone it handed to
\* the grammar
OffsetUsed(c) == CallOf(conns[c].rpc.events).timezone

\* the integer a query parameter's value is written as
QueryInteger(q) ==
    IF q[1] = "-" THEN 0 - DigitsToNat(SubSeq(q, 2, Len(q))) ELSE DigitsToNat(q)

\* every entry is rendered with the suffix of this offset
RenderedAt(c, offset) ==
    \A i \in 1..Len(OutputOf(c).results) :
        SuffixOf(OutputOf(c).results[i].start.iso) =
            (IF offset >= 0 THEN <<"+">> ELSE <<"-">>)
            \o PadStart(NatToString(Abs(offset) \div 60), 2, "0") \o <<":">>
            \o PadStart(NatToString(Abs(offset) % 60), 2, "0")

\* C11 as stated: the offset used is the argument when the request carries
\* one, the query parameter's default when it carries none and the URL has the
\* parameter, and 0 when it has neither.
C11_OffsetPrecedence ==
    \A c \in DOMAIN conns :
        (ParseAnswered(c) /\ Called(conns[c].rpc.events)) =>
            LET arg == SentArgs(c).timezone_offset
                query == conns[c].req.query
            IN  /\ arg # Undefined => Num(OffsetUsed(c)) = arg
                /\ (arg = Undefined /\ query # JsNull) =>
                      /\ query.s # <<>>
                      /\ OffsetUsed(c) = QueryInteger(query.s)
                /\ (arg = Undefined /\ query = JsNull) => OffsetUsed(c) = 0

\* C11, amended: a number argument is the offset used, whatever the query
\* parameter; with no argument the offset is the integer of the query
\* parameter when the parameter has a value, and 0 when the parameter is
\* missing or empty; a null argument gives 0, never the query parameter's
\* default.  The entries are rendered at that offset.
C11_OffsetUsed ==
    \A c \in DOMAIN conns :
        (ParseAnswered(c) /\ Called(conns[c].rpc.events)) =>
            LET arg == SentArgs(c).timezone_offset
                query == conns[c].req.query
                expected ==
                    IF arg.t = "number" THEN arg.n
                    ELSE IF arg = Undefined /\ query.t = "string" /\ query.s # <<>>
                      THEN QueryInteger(query.s)
                    ELSE 0
            IN  /\ OffsetUsed(c) = expected
                /\ Succeeded(c) => RenderedAt(c, expected)

\* an explicit 0 with ?timezone_offset=540, rendered at +00:00
C11_Witness ==
    \E c \in DOMAIN conns :
        /\ Succeeded(c)
        /\ SentArgs(c).timezone_offset = Num(0)
        /\ conns[c].req.query = Str(Query540)
        /\ OffsetUsed(c) = 0
        /\ Len(OutputOf(c).results) = 1
        /\ SuffixOf(OutputOf(c).results[1].start.iso) = <<"+", "0", "0", ":", "0", "0">>

\* C12: in every entry of a response, end is present iff isRange is true,
\* isRange is true iff the match the grammar returned has an end, and start
\* is always present.
C12_EndIffRange ==
    \A c \in DOMAIN conns :
        Succeeded(c) =>
            \A i \in 1..Len(OutputOf(c).results) :
                LET entry == OutputOf(c).results[i]
                    match == conns[c].outcome.matches[i]
                IN  /\ entry.hasEnd <=> entry.isRange
                    /\ entry.isRange <=> match.hasEnd
                    /\ entry.hasEnd <=> entry.end # NoOutput
                    /\ entry.hasEnd => entry.end.unix = match.end.date
                    /\ entry.start # NoOutput
                    /\ entry.start.iso # <<>>

\* a range and a single instant in one response
C12_Witness ==
    \E c \in DOMAIN conns :
        /\ Succeeded(c)
        /\ Len(OutputOf(c).results) = 2
        /\ OutputOf(c).results[1].isRange /\ OutputOf(c).results[1].hasEnd
        /\ OutputOf(c).results[1].end.iso # <<>>
        /\ ~OutputOf(c).results[2].isRange /\ ~OutputOf(c).results[2].hasEnd

\* the exchange has gone through handleMCPRequest
Handled(c) ==
    /\ conns[c].pc \in {"handled", "done"}
    /\ conns[c].req.method = "POST"
    /\ StartsWith(conns[c].req.path, PathPrefix)
    /\ conns[c].req.wellFormed
    /\ conns[c].req.body.jsonrpc = "2.0"

\* C13: whatever the interleaving of two exchanges in flight, the response of
\* each is the response handleMCPRequest gives to its own body and its own
\* query parameter, for a reading of the wall clock and the grammar's answer
\* to its own call: a tools/list response shows the default of its own URL,
\* a tools/call works at the offset of its own argument or its own URL.
C13_Independent ==
    \A c \in DOMAIN conns :
        Handled(c) =>
            /\ \E k \in 0..now :
                  conns[c].rpc =
                      handleMCPRequest(conns[c].req.body,
                                       DefaultTimezoneOffset(conns[c].req.query),
                                       ClockTime(k), conns[c].outcome)
            /\ conns[c].req.body.method = "tools/list" =>
                  conns[c].rpc.result.shown =
                      (IF conns[c].req.query = JsNull THEN Undefined
                       ELSE Num(QueryInteger(conns[c].req.query.s)))
            /\ (ParseAnswered(c) /\ Called(conns[c].rpc.events)) =>
                  OffsetUsed(c) =
                      (IF SentArgs(c).timezone_offset # Undefined
                         THEN SentArgs(c).timezone_offset.n
                       ELSE IF conns[c].req.query = JsNull THEN 0
                       ELSE QueryInteger(conns[c].req.query.s))

\* a tools/list under ?timezone_offset=540 and a tools/call under
\* ?timezone_offset=-300, both handled and neither answered yet
C13_Witness ==
    /\ DOMAIN conns = {1, 2}
    /\ conns[1].pc = "handled" /\ conns[2].pc = "handled"
    /\ conns[1].req.body.method = "tools/list"
    /\ conns[1].req.query = Str(Query540)
    /\ conns[1].rpc.result.shown = Num(540)
    /\ conns[2].req.query = Str(QueryMinus300)
    /\ Succeeded(2)
    /\ OffsetUsed(2) = 0 - 300
    /\ Len(conns[2].rpc.events) = 2
    /\ conns[2].rpc.events[1].instant = ClockTime(1)

\* the matches parseDateTime converts: all of them in mode "all", the first otherwise
SelectedCount(c) ==
    IF ModeIsAll(c) THEN Len(conns[c].outcome.matches)
    ELSE IF Len(conns[c].outcome.matches) = 0 THEN 0 ELSE 1

\* converting match i fails, in its start or in its end
FailsAt(c, i) ==
    \/ conns[c].outcome.matches[i].start.date = DateThrows
    \/ /\ conns[c].outcome.matches[i].hasEnd
       /\ conns[c].outcome.matches[i].end.date = DateThrows

\* C14: a chrono_parse call ends in exactly one of a complete response (an
\* entry for every selected match, each with its start and, for a range, its
\* end, and a summary) or an error that carries no response; when converting
\* one selected match fails, in its start or in its end, the reply is an error
\* and no entry of the other matches is returned; the reply has exactly one of
\* result and error.
C14_AllOrNothing ==
    \A c \in DOMAIN conns :
        ParseAnswered(c) =>
            /\ conns[c].rpc.hasResult # conns[c].rpc.hasError
            /\ conns[c].rpc.hasError =>
                  /\ conns[c].rpc.result = NoResult
                  /\ conns[c].rpc.message # <<>>
            /\ conns[c].rpc.hasResult =>
                  /\ conns[c].rpc.result.kind = "content"
                  /\ conns[c].rpc.code = 0 /\ conns[c].rpc.message = <<>>
                  /\ Len(OutputOf(c).results) = SelectedCount(c)
                  /\ OutputOf(c).summary # <<>>
                  /\ \A i \in 1..Len(OutputOf(c).results) :
                        /\ OutputOf(c).results[i].start.iso # <<>>
                        /\ conns[c].outcome.matches[i].hasEnd =>
                              OutputOf(c).results[i].end.iso # <<>>
            /\ (/\ Called(conns[c].rpc.events)
                /\ ~conns[c].outcome.threw
                /\ \E i \in 1..SelectedCount(c) : FailsAt(c, i)) =>
                  /\ conns[c].rpc.hasError /\ ~conns[c].rpc.hasResult
                  /\ conns[c].rpc.result = NoResult

\* mode "all", a match that converts and a range whose end does not
C14_Witness ==
    \E c \in DOMAIN conns :
        /\ ParseAnswered(c) /\ ModeIsAll(c)
        /\ conns[c].outcome = Matches(<<Match5pm(0), MatchEndFails>>)
        /\ conns[c].rpc.hasError
        /\ conns[c].rpc.message = MsgDateFailed
        /\ conns[c].rpc.result = NoResult

====
